---- MODULE Spec2Model ----
(***************************************************************************)
(* vue-version-watcher v1.2 (src/src/index.ts) as a state machine.         *)
(*                                                                         *)
(* The module-level variables of index.ts, the window and history globals  *)
(* it patches, the listeners and timers it registers and the HEAD probes   *)
(* it has in flight are the state.  Every exported function, listener,     *)
(* timer callback and promise continuation is one action.  Time is not     *)
(* measured: a pending timer may fire at any later step.                   *)
(*                                                                         *)
(* Assumptions about the inputs: ignorePaths is a RegExp without the g/y   *)
(* flags (test() is then a pure membership test), and onUpdateDetected     *)
(* returns normally.  Logging (silent) changes no state and is left out.   *)
(***************************************************************************)
EXTENDS Naturals, Sequences, FiniteSets

\* ------------------------------------------------------------------ bounds
\* arming setups per page load (closures created by setupVersionWatcher)
MaxSetups == 2
\* HEAD probes in flight: a step that starts probes waits until fewer than
\* this many are in flight (one event can start one per listener)
MaxInFlight == 1
\* showDialog debounce timers pending at once
MaxDialogs == 2

\* ------------------------------------------------------------------ values
NULL == "<null>"

\* a value is truthy in JS unless it is null/undefined or the empty string
Truthy(x) == x \notin {NULL, ""}

\* a || b
OrElse(a, b) == IF Truthy(a) THEN a ELSE b

\* header values a response can carry (NULL: header absent)
ETags == {NULL, "", "v1", "v2"}
LastModifieds == {NULL, "", "v2"}

\* response status codes
Statuses == {200, 204, 304, 404, 500}

\* what fetch() can produce: a rejected promise (err) or a response
Responses ==
    {[err |-> TRUE, status |-> 0, etag |-> NULL, lastModified |-> NULL]}
    \cup [err : {FALSE}, status : Statuses, etag : ETags,
          lastModified : LastModifieds]

\* Response.ok
Ok(res) == res.status \in 200..299

\* getETag has not returned yet; no getETag call is followed
NotReturned == "<pending>"
NoCall == "<none>"

\* a rejected promise, or an exception that reaches the caller
Rejected == "<rejected>"

\* window.location.pathname values; ignorePaths patterns as the set of
\* pathnames test() accepts (NoPattern: option not given)
Paths == {"/", "/admin"}
NoPattern == {}
AdminPattern == {"/admin"}
Patterns == {NoPattern, AdminPattern}

\* URLs as character sequences: scheme "h", host characters "a" "b",
\* "/" starts the path; <<>>: the element has neither src nor href
PageOrigin == <<"h", "a">>
Urls == { <<>>,
          <<"h", "a", "/", "x">>,
          <<"h", "a", "b", "/", "x">>,
          <<"h", "b", "/", "x">> }
TagNames == {"SCRIPT", "LINK", "IMG"}

\* the elements whose load can fail: event.target with its src || href
\* and its tagName
Elements ==
    { [url |-> <<"h", "a", "/", "x">>, tagName |-> t] : t \in TagNames }
    \cup { [url |-> u, tagName |-> "SCRIPT"] : u \in Urls }
    \cup { [url |-> <<"h", "a", "b", "/", "x">>, tagName |-> "LINK"] }

\* the origin of a URL (what location.origin is for the page's URL):
\* scheme+host+port, here everything before the first "/"
RECURSIVE OriginLen(_, _)
OriginLen(url, i) ==
    IF i > Len(url) \/ url[i] = "/" THEN i - 1 ELSE OriginLen(url, i + 1)

OriginOf(url) == SubSeq(url, 1, OriginLen(url, 1))

\* the element is a SCRIPT or LINK loaded from the page's own origin
SameOriginAsset(target) ==
    /\ target.url # <<>>
    /\ OriginOf(target.url) = PageOrigin
    /\ target.tagName \in {"SCRIPT", "LINK"}

\* the elements that are not
OtherElements == { target \in Elements : ~SameOriginAsset(target) }

\* String.prototype.startsWith
StartsWith(s, prefix) ==
    Len(s) >= Len(prefix) /\ SubSeq(s, 1, Len(prefix)) = prefix

\* the elements that are of the page's own origin when startsWith says so
PlainElements ==
    { target \in Elements :
        StartsWith(target.url, PageOrigin)
        => OriginOf(target.url) = PageOrigin }

\* VersionWatcherOptions: checkInterval 0 (default) or a positive interval;
\* with enabled false no other option is read
Options ==
    [enabled : {TRUE}, checkInterval : {0, 1},
     onUpdateDetected : BOOLEAN, ignorePaths : Patterns]
    \cup [enabled : {FALSE}, checkInterval : {1},
          onUpdateDetected : {TRUE}, ignorePaths : {NoPattern}]

\* a HEAD probe awaiting its response: the function that awaits it (eval:
\* versionUpdateHandler, asset: checkError) and the closure it runs in
Probe(kind, c) == <<kind, c>>
Probes == {"eval", "asset"} \X (1..MaxSetups)
NoProbes == [p \in Probes |-> 0]

\* ------------------------------------------------------------------- state
VARIABLES
    sysVersion,             \* let sysVersion
    checkTimer,             \* let checkTimer (0: null, else interval handle)
    isInitialized,          \* let isInitialized
    pathname,               \* window.location.pathname
    ORIGINAL_PUSH_STATE,    \* window.__ORIGINAL_PUSH_STATE__ (<<>>: undefined)
    ORIGINAL_REPLACE_STATE, \* window.__ORIGINAL_REPLACE_STATE__
    pushState,              \* history.pushState: wrapper closures, outermost first
    replaceState,           \* history.replaceState
    closures,               \* options captured by each arming setup call
    intervals,              \* active setInterval handles
    popstateListeners,      \* window "popstate" listeners, in order
    errorListeners,         \* window "error" listeners, in order
    errorCount,             \* errorCount of each setupErrorMonitoring call
    checkErrorTimer,        \* its debounce timer is pending
    inflight,               \* HEAD probes awaiting their response, per probe
    dialogTimers,           \* pending showDialog debounce timers
    lastCall,               \* what the last step called out to: "none",
                            \* "onUpdateDetected", "showUpdateDialog", "prompt"
                            \* (ElMessageBox.confirm or confirm, declined),
                            \* "reload" (prompt accepted, location.reload)
    fresh,                  \* history: no versionUpdateHandler has finished
                            \* since the last arming setup
    burst,                  \* history, per correlator: the failures its
                            \* listener tallied since its debounce timer
                            \* last fired (2: two or more)
    fetched,                \* the getETag call followed on its own: what its
                            \* fetch produces (NoCall: none is followed)
    returned                \* and what it returned (NotReturned: not yet)

watcher == <<sysVersion, checkTimer, isInitialized>>
hooks == <<ORIGINAL_PUSH_STATE, ORIGINAL_REPLACE_STATE, pushState, replaceState>>
listeners == <<closures, popstateListeners, errorListeners>>
correlators == <<errorCount, checkErrorTimer>>
getETagCall == <<fetched, returned>>

\* the state of the program, without lastCall and fresh
state == <<sysVersion, checkTimer, isInitialized, pathname,
           ORIGINAL_PUSH_STATE, ORIGINAL_REPLACE_STATE, pushState, replaceState,
           closures, intervals, popstateListeners, errorListeners,
           errorCount, checkErrorTimer, inflight, dialogTimers>>

vars == <<sysVersion, checkTimer, isInitialized, pathname,
          ORIGINAL_PUSH_STATE, ORIGINAL_REPLACE_STATE, pushState, replaceState,
          closures, intervals, popstateListeners, errorListeners,
          errorCount, checkErrorTimer, inflight,
          dialogTimers, lastCall, fresh, burst, fetched, returned>>

\* the state of a freshly loaded page at `path`
PageLoaded(path) ==
    /\ sysVersion = NULL
    /\ checkTimer = 0
    /\ isInitialized = FALSE
    /\ pathname = path
    /\ ORIGINAL_PUSH_STATE = <<>>
    /\ ORIGINAL_REPLACE_STATE = <<>>
    /\ pushState = <<>>
    /\ replaceState = <<>>
    /\ closures = <<>>
    /\ intervals = {}
    /\ popstateListeners = <<>>
    /\ errorListeners = <<>>
    /\ errorCount = <<>>
    /\ checkErrorTimer = <<>>
    /\ inflight = NoProbes
    /\ dialogTimers = 0
    /\ lastCall = "none"
    /\ fresh = FALSE
    /\ burst = <<>>

Loaded(path) == PageLoaded(path) /\ fetched = NoCall /\ returned = NoCall

Init == \E path \in Paths : Loaded(path)

\* --------------------------------------------------------------- helpers
\* getETag without its try/catch
getETag_NoCatch(res) ==
    IF res.err THEN Rejected
    ELSE IF ~Ok(res) THEN Rejected
    ELSE OrElse(res.etag, OrElse(res.lastModified, ""))

\* getETag: "" for a rejected fetch or a non-ok response, else etag,
\* else last-modified, else ""
getETag(res) ==
    IF res.err THEN ""
    ELSE IF ~Ok(res) THEN ""
    ELSE OrElse(res.etag, OrElse(res.lastModified, ""))

\* every value a call of getETag can return
Fingerprints == { getETag(res) : res \in Responses }

\* ignorePaths && ignorePaths.test(window.location.pathname)
IgnoresPath(ignorePaths, path) == path \in ignorePaths

\* a handler that takes every probe result as the new baseline
NeedsBaseline_Always(sys) == TRUE

\* versionUpdateHandler: if (!sysVersion)
NeedsBaseline(sys) == ~Truthy(sys)

\* a comparison that reports a change on every evaluation
VersionChanged_Always(sys, newVersion) == TRUE

\* versionUpdateHandler: if (sysVersion !== newVersion)
VersionChanged(sys, newVersion) == sys # newVersion

\* checkError: if (sysVersion && newVersion && sysVersion !== newVersion)
Diverged(sys, newVersion) ==
    Truthy(sys) /\ Truthy(newVersion) /\ sys # newVersion

\* checkError: if (errorCount > 1)
Threshold == 1

OverThreshold(count) == count > Threshold

\* errorCount++.  The code reads errorCount only in errorCount > 1, so all
\* counts above the threshold behave alike and are kept as one value
Tallied(count) == IF count > Threshold THEN count ELSE count + 1

\* error listener: !url.startsWith(window.location.origin) is false
PassesOriginTest(url) == StartsWith(url, PageOrigin)

\* error listener: tagName === "SCRIPT" || tagName === "LINK"
CountedTag(tagName) == tagName \in {"SCRIPT", "LINK"}

\* the number of probes in flight that closures 1..c started
RECURSIVE Pending(_)
Pending(c) ==
    IF c = 0 THEN 0
    ELSE inflight[Probe("eval", c)] + inflight[Probe("asset", c)]
         + Pending(c - 1)

\* the number of probes in flight
InFlight == Pending(MaxSetups)

\* inflight with one more probe for each member of ps
Started(ps) ==
    [p \in Probes |-> IF p \in ps THEN inflight[p] + 1 ELSE inflight[p]]

\* inflight with probe p answered
Answered(p) == [inflight EXCEPT ![p] = inflight[p] - 1]

\* a step that calls neither the callback nor the dialog
Silent == lastCall' = "none" /\ UNCHANGED dialogTimers

\* a notification that shows the default dialog although a callback is given
Notify_DialogToo(onUpdateDetected) ==
    /\ dialogTimers < MaxDialogs
    /\ lastCall' = IF onUpdateDetected THEN "both" ELSE "showUpdateDialog"
    /\ dialogTimers' = dialogTimers + 1

\* if (onUpdateDetected) onUpdateDetected(); else showUpdateDialog(silent);
\* showUpdateDialog builds a new debounced showDialog and calls it once,
\* which starts one more 500ms timer
Notify(onUpdateDetected) ==
    IF onUpdateDetected
    THEN /\ lastCall' = "onUpdateDetected"
         /\ UNCHANGED dialogTimers
    ELSE /\ dialogTimers < MaxDialogs
         /\ lastCall' = "showUpdateDialog"
         /\ dialogTimers' = dialogTimers + 1

\* the function hookHistoryChange captures as the original: the saved one,
\* or on the first call the current history method
CapturedOriginal(saved, current) == IF saved = <<>> THEN <<current>> ELSE saved

\* a wrapper that runs its callback a second time
Wrapper_CallbackTwice(c, saved, current) ==
    <<c, c>> \o CapturedOriginal(saved, current)[1]

\* the wrapper hookHistoryChange installs: calls the captured original,
\* then the callback of closure c
Wrapper(c, saved, current) == <<c>> \o CapturedOriginal(saved, current)[1]

hookHistoryChange(c) ==
    /\ ORIGINAL_PUSH_STATE' = CapturedOriginal(ORIGINAL_PUSH_STATE, pushState)
    /\ ORIGINAL_REPLACE_STATE' =
           CapturedOriginal(ORIGINAL_REPLACE_STATE, replaceState)
    /\ pushState' = Wrapper(c, ORIGINAL_PUSH_STATE, pushState)
    /\ replaceState' = Wrapper(c, ORIGINAL_REPLACE_STATE, replaceState)

\* navigation callbacks without their ignorePaths test
NavProbes_Unfiltered(cs, path) ==
    { Probe("eval", cs[i]) : i \in 1..Len(cs) }

\* the probes the navigation callbacks of closures cs start on arriving at
\* path: each callback returns early when its own ignorePaths matches
NavProbes(cs, path) ==
    { Probe("eval", cs[i]) :
        i \in { j \in 1..Len(cs) :
                  ~IgnoresPath(closures[cs[j]].ignorePaths, path) } }

\* ----------------------------------------------------------------- actions
\* setupVersionWatcher past its three early returns: the timer, the history
\* hook, the two listeners and the initial check
Arm(o) ==
    LET c == Len(closures) + 1 IN
    /\ UNCHANGED getETagCall
    /\ c <= MaxSetups
    /\ InFlight < MaxInFlight
    /\ isInitialized' = TRUE
    /\ closures' = Append(closures,
           [onUpdateDetected |-> o.onUpdateDetected,
            ignorePaths |-> o.ignorePaths])
    /\ IF o.checkInterval > 0
       THEN checkTimer' = c /\ intervals' = intervals \cup {c}
       ELSE UNCHANGED <<checkTimer, intervals>>
    /\ hookHistoryChange(c)
    /\ popstateListeners' = Append(popstateListeners, c)
    /\ errorListeners' = Append(errorListeners, c)
    /\ errorCount' = Append(errorCount, 0)
    /\ burst' = Append(burst, 0)
    /\ checkErrorTimer' = Append(checkErrorTimer, FALSE)
    /\ inflight' = Started({Probe("eval", c)})
    /\ fresh' = TRUE
    /\ Silent
    /\ UNCHANGED <<sysVersion, pathname>>

\* the return taken when ignorePaths matches the current path
Bypass ==
    /\ UNCHANGED getETagCall
    /\ isInitialized' = TRUE
    /\ Silent
    /\ UNCHANGED <<sysVersion, checkTimer, pathname, hooks, listeners,
                   intervals, correlators, inflight, fresh, burst>>

\* a return that leaves everything as it is
Return == Silent /\ UNCHANGED <<state, fresh, burst, getETagCall>>

\* setupVersionWatcher without its isInitialized guard
setupVersionWatcher_NoGuard(o) ==
    IF ~o.enabled THEN Return
    ELSE IF IgnoresPath(o.ignorePaths, pathname) THEN Bypass
    ELSE Arm(o)

\* setupVersionWatcher that sets isInitialized before it tests enabled
setupVersionWatcher_FlagFirst(o) ==
    IF ~o.enabled THEN Bypass
    ELSE IF isInitialized THEN Return
    ELSE IF IgnoresPath(o.ignorePaths, pathname) THEN Bypass
    ELSE Arm(o)

\* setupVersionWatcher(options)
setupVersionWatcher(o) ==
    IF ~o.enabled THEN Return
    ELSE IF isInitialized THEN Return
    ELSE IF IgnoresPath(o.ignorePaths, pathname) THEN Bypass
    ELSE Arm(o)

\* a teardown that forgets the handle without clearInterval
destroyVersionWatcher_LeaksTimer ==
    /\ UNCHANGED getETagCall
    /\ checkTimer' = 0
    /\ isInitialized' = FALSE
    /\ pushState' = IF ORIGINAL_PUSH_STATE # <<>>
                    THEN ORIGINAL_PUSH_STATE[1] ELSE pushState
    /\ replaceState' = IF ORIGINAL_REPLACE_STATE # <<>>
                       THEN ORIGINAL_REPLACE_STATE[1] ELSE replaceState
    /\ Silent
    /\ UNCHANGED <<sysVersion, pathname, ORIGINAL_PUSH_STATE,
                   ORIGINAL_REPLACE_STATE, listeners, intervals, correlators,
                   inflight, fresh, burst>>

\* a teardown that leaves the history methods as they are
destroyVersionWatcher_KeepsHooks ==
    /\ UNCHANGED getETagCall
    /\ IF checkTimer # 0
       THEN intervals' = intervals \ {checkTimer} /\ checkTimer' = 0
       ELSE UNCHANGED <<checkTimer, intervals>>
    /\ isInitialized' = FALSE
    /\ Silent
    /\ UNCHANGED <<sysVersion, pathname, hooks, listeners, correlators,
                   inflight, fresh, burst>>

\* destroyVersionWatcher()
destroyVersionWatcher ==
    /\ UNCHANGED getETagCall
    /\ IF checkTimer # 0
       THEN intervals' = intervals \ {checkTimer} /\ checkTimer' = 0
       ELSE UNCHANGED <<checkTimer, intervals>>
    /\ isInitialized' = FALSE
    /\ pushState' = IF ORIGINAL_PUSH_STATE # <<>>
                    THEN ORIGINAL_PUSH_STATE[1] ELSE pushState
    /\ replaceState' = IF ORIGINAL_REPLACE_STATE # <<>>
                       THEN ORIGINAL_REPLACE_STATE[1] ELSE replaceState
    /\ Silent
    /\ UNCHANGED <<sysVersion, pathname, ORIGINAL_PUSH_STATE,
                   ORIGINAL_REPLACE_STATE, listeners, correlators, inflight,
                   fresh, burst>>

\* a call of the history method fn (history.pushState or replaceState as it
\* stands) by any code of the page: the native method moves to path, then
\* each wrapper's callback runs
CallHistory(fn, path) ==
    /\ UNCHANGED getETagCall
    /\ NavProbes(fn, path) = {} \/ InFlight < MaxInFlight
    /\ pathname' = path
    /\ inflight' = Started(NavProbes(fn, path))
    /\ Silent
    /\ UNCHANGED <<watcher, hooks, listeners, intervals, correlators, fresh,
                   burst>>

historyPushState(path) == CallHistory(pushState, path)

historyReplaceState(path) == CallHistory(replaceState, path)

\* back/forward: the browser moves to path and dispatches "popstate"
popstate(path) ==
    /\ UNCHANGED getETagCall
    /\ NavProbes(popstateListeners, path) = {} \/ InFlight < MaxInFlight
    /\ pathname' = path
    /\ inflight' = Started(NavProbes(popstateListeners, path))
    /\ Silent
    /\ UNCHANGED <<watcher, hooks, listeners, intervals, correlators, fresh,
                   burst>>

\* the setInterval callback of handle h
intervalTick(h) ==
    /\ UNCHANGED getETagCall
    /\ h \in intervals
    /\ InFlight < MaxInFlight
    /\ inflight' = Started({Probe("eval", h)})
    /\ Silent
    /\ UNCHANGED <<watcher, pathname, hooks, listeners, intervals,
                   correlators, fresh, burst>>

\* the listeners that tally an "error" event of an element with this URL
\* (src || href) and tag name
Tallying(url, tagName) ==
    IF url # <<>> /\ PassesOriginTest(url) /\ CountedTag(tagName)
    THEN { errorListeners[i] : i \in 1..Len(errorListeners) }
    ELSE {}

\* a resource "error" event, captured on window by every error listener:
\* errorCount++ and checkError() restarts the 1000ms debounce timer
assetError(url, tagName) ==
    /\ UNCHANGED getETagCall
    /\ errorCount' = [c \in DOMAIN errorCount |->
           IF c \in Tallying(url, tagName) THEN Tallied(errorCount[c])
           ELSE errorCount[c]]
    /\ checkErrorTimer' = [c \in DOMAIN checkErrorTimer |->
           c \in Tallying(url, tagName) \/ checkErrorTimer[c]]
    /\ burst' = [c \in DOMAIN burst |->
           IF c \in Tallying(url, tagName) /\ burst[c] < 2
           THEN burst[c] + 1 ELSE burst[c]]
    /\ Silent
    /\ UNCHANGED <<watcher, pathname, hooks, listeners, intervals, inflight,
                   fresh>>

\* the debounce timer of correlator c fires: checkError runs up to its await
checkErrorFires(c) ==
    /\ UNCHANGED getETagCall
    /\ c \in DOMAIN checkErrorTimer
    /\ checkErrorTimer[c]
    /\ checkErrorTimer' = [checkErrorTimer EXCEPT ![c] = FALSE]
    /\ burst' = [burst EXCEPT ![c] = 0]
    /\ IF OverThreshold(errorCount[c])
       THEN /\ InFlight < MaxInFlight
            /\ inflight' = Started({Probe("asset", c)})
            /\ UNCHANGED errorCount
       ELSE /\ errorCount' = [errorCount EXCEPT ![c] = 0]
            /\ UNCHANGED inflight
    /\ Silent
    /\ UNCHANGED <<watcher, pathname, hooks, listeners, intervals, fresh>>

\* checkError resumes after its await: getETag returned newVersion
checkErrorResumes(p, newVersion) ==
    /\ UNCHANGED getETagCall
    /\ p[1] = "asset"
    /\ inflight[p] > 0
    /\ inflight' = Answered(p)
    /\ IF Diverged(sysVersion, newVersion)
       THEN Notify(closures[p[2]].onUpdateDetected)
       ELSE Silent
    /\ errorCount' = [errorCount EXCEPT ![p[2]] = 0]
    /\ UNCHANGED <<watcher, pathname, hooks, listeners, intervals,
                   checkErrorTimer, fresh, burst>>

\* a versionUpdateHandler that takes the new fingerprint as the baseline
\* once it has notified
versionUpdateHandler_Rebases(p, newVersion) ==
    /\ UNCHANGED getETagCall
    /\ p[1] = "eval"
    /\ inflight[p] > 0
    /\ inflight' = Answered(p)
    /\ sysVersion' = newVersion
    /\ IF ~NeedsBaseline(sysVersion) /\ VersionChanged(sysVersion, newVersion)
       THEN Notify(closures[p[2]].onUpdateDetected)
       ELSE Silent
    /\ fresh' = FALSE
    /\ UNCHANGED <<checkTimer, isInitialized, pathname, hooks, listeners,
                   intervals, correlators, burst>>

\* versionUpdateHandler resumes after its await: getETag returned newVersion
versionUpdateHandler(p, newVersion) ==
    /\ UNCHANGED getETagCall
    /\ p[1] = "eval"
    /\ inflight[p] > 0
    /\ inflight' = Answered(p)
    /\ IF NeedsBaseline(sysVersion)
       THEN /\ sysVersion' = newVersion
            /\ Silent
       ELSE /\ UNCHANGED sysVersion
            /\ IF VersionChanged(sysVersion, newVersion)
               THEN Notify(closures[p[2]].onUpdateDetected)
               ELSE Silent
    /\ fresh' = FALSE
    /\ UNCHANGED <<checkTimer, isInitialized, pathname, hooks, listeners,
                   intervals, correlators, burst>>

\* a showDialog debounce timer fires and the prompt is presented
\* (ElMessageBox or confirm): declining changes nothing more, accepting
\* reloads the page, which starts over at the same path
showDialogFires(accept) ==
    /\ UNCHANGED getETagCall
    /\ dialogTimers > 0
    /\ IF accept
       THEN /\ sysVersion' = NULL
            /\ checkTimer' = 0
            /\ isInitialized' = FALSE
            /\ ORIGINAL_PUSH_STATE' = <<>>
            /\ ORIGINAL_REPLACE_STATE' = <<>>
            /\ pushState' = <<>>
            /\ replaceState' = <<>>
            /\ closures' = <<>>
            /\ intervals' = {}
            /\ popstateListeners' = <<>>
            /\ errorListeners' = <<>>
            /\ errorCount' = <<>>
            /\ burst' = <<>>
            /\ checkErrorTimer' = <<>>
            /\ inflight' = NoProbes
            /\ dialogTimers' = 0
            /\ lastCall' = "reload"
            /\ fresh' = FALSE
            /\ UNCHANGED pathname
       ELSE /\ dialogTimers' = dialogTimers - 1
            /\ lastCall' = "prompt"
            /\ UNCHANGED <<watcher, pathname, hooks, listeners, intervals,
                           correlators, inflight, fresh, burst>>

Next ==
    \/ \E o \in Options : setupVersionWatcher(o)
    \/ destroyVersionWatcher
    \/ \E path \in Paths : historyPushState(path)
    \/ \E path \in Paths : historyReplaceState(path)
    \/ \E path \in Paths : popstate(path)
    \/ \E h \in 1..MaxSetups : intervalTick(h)
    \/ \E target \in Elements : assetError(target.url, target.tagName)
    \/ \E c \in 1..MaxSetups : checkErrorFires(c)
    \/ \E p \in Probes, newVersion \in Fingerprints :
           checkErrorResumes(p, newVersion)
    \/ \E p \in Probes, newVersion \in Fingerprints :
           versionUpdateHandler(p, newVersion)
    \/ \E accept \in BOOLEAN : showDialogFires(accept)

Spec == Init /\ [][Next]_vars

\* The page served by an endpoint whose every probe answers with one and the
\* same non-empty fingerprint.  No showDialog timer is ever started here
\* (C3_NoNotification), so showDialogFires is left out of the next-state relation.
SameFingerprint == "v1"

NextSame ==
    \/ \E o \in Options : setupVersionWatcher(o)
    \/ destroyVersionWatcher
    \/ \E path \in Paths : historyPushState(path)
    \/ \E path \in Paths : historyReplaceState(path)
    \/ \E path \in Paths : popstate(path)
    \/ \E h \in 1..MaxSetups : intervalTick(h)
    \/ \E target \in Elements : assetError(target.url, target.tagName)
    \/ \E c \in 1..MaxSetups : checkErrorFires(c)
    \/ \E p \in Probes : checkErrorResumes(p, SameFingerprint)
    \/ \E p \in Probes : versionUpdateHandler(p, SameFingerprint)

SpecSame == Init /\ [][NextSame]_vars

\* The page on which no SCRIPT or LINK of the page's own origin ever fails to
\* load: every "error" event comes from one of the other elements.
NextForeign ==
    \/ \E o \in Options : setupVersionWatcher(o)
    \/ destroyVersionWatcher
    \/ \E path \in Paths : historyPushState(path)
    \/ \E path \in Paths : historyReplaceState(path)
    \/ \E path \in Paths : popstate(path)
    \/ \E h \in 1..MaxSetups : intervalTick(h)
    \/ \E target \in OtherElements : assetError(target.url, target.tagName)
    \/ \E c \in 1..MaxSetups : checkErrorFires(c)
    \/ \E p \in Probes, newVersion \in Fingerprints :
           checkErrorResumes(p, newVersion)
    \/ \E p \in Probes, newVersion \in Fingerprints :
           versionUpdateHandler(p, newVersion)
    \/ \E accept \in BOOLEAN : showDialogFires(accept)

SpecForeign == Init /\ [][NextForeign]_vars

\* The page on which no element of a host that merely begins with the page's
\* host fails to load: every failure a listener tallies is one of a
\* same-origin SCRIPT or LINK.
NextPlain ==
    \/ \E o \in Options : setupVersionWatcher(o)
    \/ destroyVersionWatcher
    \/ \E path \in Paths : historyPushState(path)
    \/ \E path \in Paths : historyReplaceState(path)
    \/ \E path \in Paths : popstate(path)
    \/ \E h \in 1..MaxSetups : intervalTick(h)
    \/ \E target \in PlainElements : assetError(target.url, target.tagName)
    \/ \E c \in 1..MaxSetups : checkErrorFires(c)
    \/ \E p \in Probes, newVersion \in Fingerprints :
           checkErrorResumes(p, newVersion)
    \/ \E p \in Probes, newVersion \in Fingerprints :
           versionUpdateHandler(p, newVersion)
    \/ \E accept \in BOOLEAN : showDialogFires(accept)

SpecPlain == Init /\ [][NextPlain]_vars

\* One getETag call after the other, each followed from its fetch to its
\* return, on a page where the watcher is not set up.
InitProbe ==
    /\ \E path \in Paths : PageLoaded(path)
    /\ fetched \in Responses
    /\ returned = NotReturned

\* the awaited fetch settles and getETag returns
getETagReturns ==
    /\ returned = NotReturned
    /\ returned' = getETag(fetched)
    /\ UNCHANGED <<state, lastCall, fresh, burst, fetched>>

\* the next call of getETag, whose fetch will produce res
getETagCalled(res) ==
    /\ returned # NotReturned
    /\ fetched' = res
    /\ returned' = NotReturned
    /\ UNCHANGED <<state, lastCall, fresh, burst>>

NextProbe ==
    \/ getETagReturns
    \/ \E res \in Responses : getETagCalled(res)

SpecProbe == InitProbe /\ [][NextProbe]_vars

\* ------------------------------------------------------------------ claims
\* the step that led here notified once: it called the callback, or it
\* called showUpdateDialog
NotifiedOnce == lastCall \in {"onUpdateDetected", "showUpdateDialog"}

\* the step that led here called neither
NotNotified == lastCall = "none"

\* this step calls neither and starts no dialog timer
NoNotification == NotNotified' /\ dialogTimers' = dialogTimers

\* some versionUpdateHandler or checkError run finishes in this step
Evaluates(p, newVersion) ==
    versionUpdateHandler(p, newVersion) \/ checkErrorResumes(p, newVersion)

NonEmpty == Fingerprints \ {""}

\* C1: the first versionUpdateHandler run to finish after an arming setup,
\* started by that setup's closure, takes the probed fingerprint as the
\* baseline and notifies nobody, whatever the fingerprint is
C1_FirstEvaluationPrimes ==
    [][\A p \in Probes, newVersion \in Fingerprints :
          (fresh /\ p[2] = Len(closures) /\ versionUpdateHandler(p, newVersion))
          => (sysVersion' = newVersion /\ NoNotification)]_vars

\* C2: a versionUpdateHandler run that finds a non-empty baseline a and
\* probes a non-empty b # a notifies exactly once and keeps the baseline; a
\* run that finds no baseline takes the probed value and does not notify;
\* a run whose probe equals the baseline does not notify and keeps it
\* (so probes v1, v1, v2 on a fresh page give no, no, yes)
C2_OneNotificationPerDivergence ==
    [][\A p \in Probes, newVersion \in Fingerprints :
          versionUpdateHandler(p, newVersion) =>
              /\ (sysVersion \in NonEmpty /\ newVersion \in NonEmpty
                  /\ sysVersion # newVersion)
                 => (NotifiedOnce' /\ sysVersion' = sysVersion)
              /\ sysVersion = NULL
                 => (NoNotification /\ sysVersion' = newVersion)
              /\ sysVersion = newVersion
                 => (NoNotification /\ sysVersion' = sysVersion)]_vars

\* a page with one watcher, no asset error pending, whose baseline is v1 and
\* whose last step notified once, the baseline's first evaluation being over
C2_Witness ==
    /\ Len(closures) = 1
    /\ sysVersion = "v1"
    /\ NotifiedOnce
    /\ ~fresh
    /\ errorCount = <<0>>
    /\ checkErrorTimer = <<FALSE>>

\* C3: while every probe answers with the same non-empty fingerprint, no
\* notification is fired: no step calls the callback or the dialog, no
\* dialog timer is pending, and the baseline is unset or that fingerprint
C3_NoNotification ==
    /\ NotNotified
    /\ dialogTimers = 0
    /\ sysVersion \in {NULL, SameFingerprint}

\* two watchers armed, the baseline set and evaluated against since, an
\* asset-error probe in flight, asset errors tallied again meanwhile
C3_Witness ==
    /\ Len(closures) = 2
    /\ sysVersion = SameFingerprint
    /\ ~fresh
    /\ \E c \in 1..2 :
          inflight[Probe("asset", c)] > 0 /\ errorCount[c] > 1
          /\ checkErrorTimer[c]

\* C4: a run whose probe failed (empty fingerprint) while the baseline is
\* non-empty notifies nobody and keeps the baseline
C4_FailedProbeIsSilent ==
    [][\A p \in Probes :
          (Truthy(sysVersion) /\ Evaluates(p, ""))
          => (NoNotification /\ sysVersion' = sysVersion)]_vars

\* C5: the correlator issues a probe only when two or more same-origin
\* SCRIPT/LINK load failures have been tallied since the last reset; on a
\* page where no such failure ever happens none is ever tallied, so no
\* correlator probe is ever in flight
C5_ProbeOnlyAfterSameOriginFailures ==
    \A c \in 1..MaxSetups : inflight[Probe("asset", c)] = 0

\* C6: the load failure of an element whose URL has another origin than the
\* page leaves every tally as it is
C6_CrossOriginNotTallied ==
    [][\A target \in Elements :
          (OriginOf(target.url) # PageOrigin
           /\ assetError(target.url, target.tagName))
          => UNCHANGED <<errorCount, checkErrorTimer>>]_vars

\* initialized by a setup that took the ignorePaths return: the flag is set
\* and the history methods are the native ones (an arming setup leaves its
\* wrapper in place until the teardown)
Bypassed == isInitialized /\ pushState = <<>> /\ replaceState = <<>>

\* this step attaches no listener, wraps no history method, arms no timer
\* and issues no probe
NothingStarted ==
    /\ UNCHANGED <<checkTimer, hooks, listeners, intervals>>
    /\ \A p \in Probes : inflight'[p] <= inflight[p]

\* C7: an enabled setup on a path ignorePaths matches attaches no listener,
\* wraps no history method, issues no probe and arms no timer; and from
\* then on no step does (navigation to any path, further setup calls),
\* until a teardown or a reload
\* (each implication A => B is written B \/ ~A)
C7_IgnoredPathBypass ==
    [][/\ \A o \in Options :
             \/ isInitialized' /\ NothingStarted
             \/ ~(o.enabled /\ ~isInitialized /\ pathname \in o.ignorePaths
                  /\ setupVersionWatcher(o))
       /\ Bypassed => (NothingStarted \/ ~isInitialized')]_vars

\* what arming with options o leaves behind, c being the new closure
ArmedWith(o, c) ==
    /\ isInitialized'
    /\ Len(closures') = c
    /\ popstateListeners' = Append(popstateListeners, c)
    /\ errorListeners' = Append(errorListeners, c)
    /\ pushState' = <<c>> /\ replaceState' = <<c>>
    /\ checkTimer' = (IF o.checkInterval > 0 THEN c ELSE checkTimer)
    /\ inflight'[Probe("eval", c)] = 1

\* C8: an enabled setup on an initialized watcher changes nothing, whatever
\* its options; an enabled setup on an uninitialized watcher (also after a
\* teardown) on a path that is not ignored arms it: flag set, one more
\* closure with its popstate and error listener, its wrappers installed, a
\* timer exactly when checkInterval > 0, the initial check started
\* (each implication A => B is written B \/ ~A)
C8_SetupIdempotentAndRearms ==
    [][\A o \in Options :
          IF isInitialized
          THEN \/ NoNotification /\ UNCHANGED <<state, fresh>>
               \/ ~(o.enabled /\ setupVersionWatcher(o))
          ELSE \/ ArmedWith(o, Len(closures) + 1)
               \/ ~(o.enabled /\ pathname \notin o.ignorePaths
                    /\ setupVersionWatcher(o))]_vars

\* armed a second time, after a teardown
C8_Witness == isInitialized /\ Len(closures) = 2 /\ pushState = <<2>>

\* every wrapper in the chain fn belongs to a closure whose ignorePaths
\* matches path
AllIgnore(fn, path) ==
    \A i \in 1..Len(fn) : path \in closures[fn[i]].ignorePaths

\* no closure whose ignorePaths matches path gets a probe started
NoProbeForIgnoring(path) ==
    \A c \in 1..Len(closures) :
        path \in closures[c].ignorePaths
        => inflight'[Probe("eval", c)] = inflight[Probe("eval", c)]

C11_TeardownPostconditions ==
    [][\/ /\ checkTimer' = 0
          /\ intervals' = {}
          /\ ~isInitialized'
          /\ pushState' = <<>> /\ replaceState' = <<>>
          /\ \A path \in Paths :
                NavProbes(pushState', path) = {}
                /\ NavProbes(replaceState', path) = {}
          /\ (~isInitialized /\ closures = <<>>) => UNCHANGED state
       \/ ~destroyVersionWatcher]_vars

\* torn down after the second arming, whose timer had ticked: the probe is
\* still in flight, no interval is left, the methods are native
C11_Witness ==
    /\ ~isInitialized
    /\ Len(closures) = 2
    /\ inflight[Probe("eval", 2)] = 1
    /\ ~fresh
    /\ checkTimer = 0
    /\ intervals = {}
    /\ ORIGINAL_PUSH_STATE = << <<>> >>
    /\ pushState = <<>>


\* C12: a setupVersionWatcher step with enabled false changes nothing in
\* any state: no listener, probe, timer or wrapper is added and the flag,
\* the timer handle and the baseline stay, so that the watcher can be
\* armed afterwards exactly as before
\* (the implication A => B is written B \/ ~A)
C12_DisabledSetupIsInert ==
    [][\A o \in Options :
          \/ o.enabled
          \/ NoNotification /\ UNCHANGED <<state, fresh>>
          \/ ~setupVersionWatcher(o)]_vars

\* a torn-down watcher with a dialog timer still pending, the last step
\* having called nothing: a disabled setup leads here from the state in
\* which the dialog was just called and the watcher torn down
C12_Witness ==
    /\ ~isInitialized
    /\ closures # <<>>
    /\ dialogTimers > 0
    /\ lastCall = "none"
    /\ checkTimer = 0


\* C13: getETag returns, and never rejects: the ETag value when the
\* response is successful and carries a non-empty ETag; else the
\* Last-Modified value when the response is successful and carries a
\* non-empty one; else ""; and "" for every non-success status and for a
\* failed fetch, whatever the headers
C13_FingerprintPrecedence ==
    returned # NotReturned =>
        /\ returned # Rejected
        /\ returned =
             (IF fetched.err \/ fetched.status \notin 200..299 THEN ""
              ELSE IF fetched.etag \notin {NULL, ""} THEN fetched.etag
              ELSE IF fetched.lastModified \notin {NULL, ""}
                   THEN fetched.lastModified
              ELSE "")

\* a successful response with an empty ETag and a Last-Modified: the
\* Last-Modified value was returned
C13_Witness ==
    /\ returned = "v2"
    /\ fetched.status = 204
    /\ fetched.etag = ""
    /\ fetched.lastModified = "v2"


\* C14: the detections of a burst (each made while the showDialog timer of
\* the one before is still pending) share one debounce timer, so that one
\* prompt follows the burst: never more than one showDialog timer is pending
C14_OnePromptPerBurst == dialogTimers <= 1


\* C15: when the debounce timer of a correlator fires after two or more
\* same-origin SCRIPT/LINK failures since it last fired (under SpecPlain
\* every tallied failure is one), the correlator issues a probe, also when
\* a probe of its earlier cycle completed in between
\* (the implication A => B is written B \/ ~A)
C15_BurstIsProbed ==
    [][\A c \in 1..MaxSetups :
          \/ c \notin DOMAIN burst
          \/ burst[c] < 2
          \/ inflight'[Probe("asset", c)] = inflight[Probe("asset", c)] + 1
          \/ ~checkErrorFires(c)]_vars


\* C16: a non-empty baseline is changed by no step but the reload of the
\* page, in particular by no versionUpdateHandler or checkError run, also
\* not by one that notifies; and every such run that probes a non-empty
\* fingerprint other than the baseline notifies, however many did before
\* (the implication A => B is written B \/ ~A)
C16_BaselineIsKept ==
    [][/\ Truthy(sysVersion) => (sysVersion' = sysVersion \/ lastCall' = "reload")
       /\ \A p \in Probes, newVersion \in NonEmpty :
             \/ ~Truthy(sysVersion)
             \/ newVersion = sysVersion
             \/ NotifiedOnce' /\ sysVersion' = sysVersion
             \/ ~Evaluates(p, newVersion)]_vars

\* the baseline is still v1 after two runs in a row called the dialog
C16_Witness ==
    /\ sysVersion = "v1"
    /\ lastCall = "showUpdateDialog"
    /\ dialogTimers = 2


\* C17: what is captured as the original pushState/replaceState is the
\* native method and is captured once: it is never a wrapper; the method
\* in place is the native one or one wrapper around it, which calls the
\* native method and then one navigation callback
C17_WrappersNotStacked ==
    /\ ORIGINAL_PUSH_STATE \in {<<>>, << <<>> >>}
    /\ ORIGINAL_REPLACE_STATE \in {<<>>, << <<>> >>}
    /\ Len(pushState) <= 1
    /\ Len(replaceState) <= 1
    /\ ORIGINAL_PUSH_STATE = <<>> => pushState = <<>>
    /\ ORIGINAL_REPLACE_STATE = <<>> => replaceState = <<>>
    /\ \A path \in Paths :
          /\ Cardinality(NavProbes(pushState, path)) <= 1
          /\ Cardinality(NavProbes(replaceState, path)) <= 1

\* armed for the second time: the wrappers are those of the second closure
\* alone, around the native methods captured by the first setup
C17_Witness ==
    /\ isInitialized
    /\ Len(closures) = 2
    /\ pushState = <<2>>
    /\ replaceState = <<2>>
    /\ ORIGINAL_PUSH_STATE = << <<>> >>
    /\ ORIGINAL_REPLACE_STATE = << <<>> >>


\* at most one interval is active, it is the one whose handle checkTimer
\* holds, and the watcher is initialized while it runs
OneTimer ==
    /\ Cardinality(intervals) <= 1
    /\ IF checkTimer = 0 THEN intervals = {} ELSE intervals = {checkTimer}
    /\ intervals # {} => isInitialized

\* C18: a setup step starts an interval only if checkInterval > 0; and in
\* every state at most one interval is active, its handle is the one in
\* checkTimer (so that the teardown can clear it) and the flag is set
\* (the implication A => B is written B \/ ~A)
C18_AtMostOneTimer ==
    [][/\ OneTimer'
       /\ \A o \in Options :
             \/ o.enabled /\ o.checkInterval > 0
             \/ intervals' = intervals
             \/ ~setupVersionWatcher(o)]_vars

\* armed for the second time with a timer, the first arming's timer being
\* cleared: the one active interval is the second closure's
C18_Witness ==
    /\ isInitialized
    /\ Len(closures) = 2
    /\ checkTimer = 2
    /\ intervals = {2}
    /\ inflight[Probe("eval", 1)] = 1


\* C19: while the watcher is torn down (from destroyVersionWatcher to the
\* next setup that sets the flag) no step starts a probe and no step calls
\* onUpdateDetected or showUpdateDialog
C19_QuiescentAfterTeardown ==
    [][(~isInitialized /\ ~isInitialized') =>
          /\ \A p \in Probes : inflight'[p] <= inflight[p]
          /\ ~NotifiedOnce']_vars


\* armed: the flag is set and the wrappers are installed
Armed == isInitialized /\ pushState # <<>>

\* C20: while the watcher is armed, a popstate to a path that the
\* ignorePaths of the arming setup does not match starts exactly one
\* evaluation, and the load failure of a same-origin SCRIPT or LINK is
\* tallied by exactly one listener
\* (each implication A => B is written B \/ ~A)
C20_ListenersDoNotAccumulate ==
    [][\/ ~Armed
       \/ /\ \A path \in Paths :
                \/ path \in closures[Len(closures)].ignorePaths
                \/ Cardinality(NavProbes(popstateListeners, path)) = 1
                \/ ~popstate(path)
          /\ \A target \in Elements :
                \/ ~SameOriginAsset(target)
                \/ Cardinality(Tallying(target.url, target.tagName)) = 1
                \/ ~assetError(target.url, target.tagName)]_vars

====
